---------------------------- MODULE Spec2Model ----------------------------
(***************************************************************************)
(* A model of conanfile.py, the Conan recipe of the xpp project.           *)
(*                                                                         *)
(* The recipe declares its requirements and gives three hooks: layout()    *)
(* names the output folders after the lower-cased build_type, generate()   *)
(* runs the CMakeToolchain and the CMakeDeps generators, build() runs the  *)
(* external CMake configure step and then the external CMake build step.   *)
(* A run of the recipe is one Conan command on it: "install" stops after   *)
(* generate(), "build" goes on to build().                                 *)
(*                                                                         *)
(* Strings that the recipe computes with are sequences of one-character    *)
(* strings, so that lower-casing and the f-string of layout() are modelled *)
(* by what they do to the characters.                                      *)
(***************************************************************************)
EXTENDS Naturals, Sequences, FiniteSets

\* ------------------------------------------------------------- bounds
\* Longest build_type string a profile gives.
MaxLen == 1
\* Largest exit code an external CMake step returns.
MaxExit == 2
\* How many times one recipe is run in a row (Spec only).
MaxRuns == 2

\* ------------------------------------------------------------- strings
UpperAlpha == <<"A","B","C","D","E","F","G","H","I","J","K","L","M",
                "N","O","P","Q","R","S","T","U","V","W","X","Y","Z">>
LowerAlpha == <<"a","b","c","d","e","f","g","h","i","j","k","l","m",
                "n","o","p","q","r","s","t","u","v","w","x","y","z">>

\* str.lower() on one character: an upper-case letter becomes its lower-case
\* letter, every other character is kept.
LowerChar(c) ==
    IF \E i \in 1..Len(UpperAlpha) : UpperAlpha[i] = c
    THEN LowerAlpha[CHOOSE i \in 1..Len(UpperAlpha) : UpperAlpha[i] = c]
    ELSE c

\* str.lower()
lower(s) == [i \in 1..Len(s) |-> LowerChar(s[i])]

\* The value of a setting: a string, or None when the profile leaves it out.
PyNone == [type |-> "NoneType", s |-> <<>>]
PyStr(s) == [type |-> "str", s |-> s]

\* str(x)
str(x) == IF x.type = "NoneType" THEN <<"N","o","n","e">> ELSE x.s

\* ------------------------------------------------------------- the recipe
\* requires = [...]: the declared requirements, "name/version", in order.
requires == <<
    [name |-> "spdlog",        version |-> "1.14.1"],
    [name |-> "drogon",        version |-> "1.9.11"],
    [name |-> "nlohmann_json", version |-> "3.11.3"],
    [name |-> "yaml-cpp",      version |-> "0.8.0"],
    [name |-> "protobuf",      version |-> "3.21.12"],
    [name |-> "sqlite3",       version |-> "3.44.0"],
    [name |-> "boost",         version |-> "1.83.0"],
    [name |-> "gtest",         version |-> "1.17.0"] >>

\* The literal "/generators" of layout()'s f-string.
GeneratorsSuffix == <<"/","g","e","n","e","r","a","t","o","r","s">>

\* A faulty build folder: the build_type as the profile spells it.
layout_build_raw(st) == str(st.build_type)

\* layout(): build_type = str(self.settings.build_type).lower();
\*           self.folders.build = build_type
layout_build(st) == lower(str(st.build_type))

\* A faulty generators folder: a folder beside the build folder.
layout_generators_flat(st) == Tail(GeneratorsSuffix)

\* layout(): self.folders.generators = f"{build_type}/generators"
layout_generators(st) == lower(str(st.build_type)) \o GeneratorsSuffix

\* layout(): self.folders.source = "."
layout_source == <<".">>

\* tc.generator = "Ninja"
tc_generator == "Ninja"


\* ------------------------------------------------------------- inputs
\* The characters a profile's build_type is spelled with.
Letters == {"D", "d"}

\* The strings of at most n letters, the empty string among them.
Strings(n) == UNION {[1..k -> Letters] : k \in 0..n}

\* settings = "os", "compiler", "build_type", "arch": the values a profile
\* gives them.  layout() reads build_type with str(), whatever it is.
BuildTypes == {PyNone} \cup {PyStr(s) : s \in Strings(MaxLen)}
Platforms == {[os |-> "Linux",   compiler |-> "gcc",  arch |-> "x86_64"],
              [os |-> "Windows", compiler |-> "msvc", arch |-> "armv8"]}
Profiles == {[os |-> p.os, compiler |-> p.compiler, arch |-> p.arch,
              build_type |-> b] : p \in Platforms, b \in BuildTypes}

\* ------------------------------------------------------------- results
Running == [kind |-> "running", stage |-> "", exit_code |-> 0]
Success == [kind |-> "ok", stage |-> "", exit_code |-> 0]
GenerationError(category) ==
    [kind |-> "Generation", stage |-> category, exit_code |-> 0]
ExternalFailure(phase, code) ==
    [kind |-> "ExternalFailure", stage |-> phase, exit_code |-> code]

NoFolders == [build |-> <<>>, generators |-> <<>>, source |-> <<>>]
NoFiles == [p \in {} |-> Success]

\* ------------------------------------------------------------- state
VARIABLES
    settings,         \* run -> the profile of the run (self.settings)
    invoke_external,  \* run -> TRUE when the command goes on to build()
    folders,          \* run -> self.folders as layout() left them
    pc,               \* run -> the hook or call the run is about to make
    result,           \* run -> how the run ended, Running until then
    calls,            \* run -> the external CMake calls made, in order
    stages,           \* run -> the stages executed, in order
    written,          \* run -> the paths written, in order
    fs,               \* the files on disk: path -> content
    runs,             \* run -> how many times the recipe was started
    last              \* run -> result and disk at the end of the run before

vars == <<settings, invoke_external, folders, pc, result, calls, stages,
          written, fs, runs, last>>

Procs == DOMAIN pc

InitRuns(P) ==
    /\ settings \in [P -> Profiles]
    /\ invoke_external \in [P -> BOOLEAN]
    /\ folders = [r \in P |-> NoFolders]
    /\ pc = [r \in P |-> "layout"]
    /\ result = [r \in P |-> Running]
    /\ calls = [r \in P |-> <<>>]
    /\ stages = [r \in P |-> <<>>]
    /\ written = [r \in P |-> <<>>]
    /\ fs = NoFiles
    /\ runs = [r \in P |-> 1]
    /\ last = [r \in P |-> [result |-> Running, fs |-> NoFiles]]

\* One recipe, run MaxRuns times in a row.
Init == InitRuns({"run"})

\* Two runs of the recipe at the same time, each with its own profile.
InitPair == InitRuns({"run1", "run2"})

\* ------------------------------------------------------------- the disk
Path(dir, file) == [dir |-> dir, file |-> file]

\* A faulty write: a file that is there already is added to, not replaced.
Write_append(f, path, content) ==
    [p \in DOMAIN f \cup {path} |->
        IF p # path THEN f[p]
        ELSE IF path \in DOMAIN f
             THEN [category |-> content.category, after |-> f[path],
                   added |-> content]
             ELSE content]

\* A generator writes a file: what was at the path is replaced.
Write(f, path, content) ==
    [p \in DOMAIN f \cup {path} |-> IF p = path THEN content ELSE f[p]]

ToolchainFile == "conan_toolchain.cmake"

\* What CMakeToolchain(self) writes: the settings and the generator name.
ToolchainContent(st) ==
    [category |-> "toolchain", os |-> st.os, compiler |-> st.compiler,
     arch |-> st.arch, build_type |-> str(st.build_type),
     generator |-> tc_generator]

\* What CMakeDeps(self) writes for the i-th requirement.
DepsFile(i) == requires[i].name
DepsContent(i) ==
    [category |-> "dependency-locator", name |-> requires[i].name,
     version |-> requires[i].version]

\* The disk after CMakeDeps wrote the first k requirements' files into dir.
WriteDeps(f, dir, k) ==
    LET new == {Path(dir, DepsFile(i)) : i \in 1..k}
    IN  [p \in DOMAIN f \cup new |->
            IF p \in new
            THEN DepsContent(CHOOSE i \in 1..k : Path(dir, DepsFile(i)) = p)
            ELSE f[p]]

DepsPaths(dir, k) == [i \in 1..k |-> Path(dir, DepsFile(i))]

\* ------------------------------------------------------------- layout()
Layout(r) ==
    /\ pc[r] = "layout"
    /\ folders' = [folders EXCEPT ![r] =
                     [build |-> layout_build(settings[r]),
                      generators |-> layout_generators(settings[r]),
                      source |-> layout_source]]
    /\ stages' = [stages EXCEPT ![r] = Append(@, "layout")]
    /\ pc' = [pc EXCEPT ![r] = "toolchain"]
    /\ UNCHANGED <<settings, invoke_external, result, calls, written, fs,
                   runs, last>>

\* ------------------------------------------------------------- generate()
\* The folder the generators write into: self.folders.generators.
generators_folder(f) == f.generators

\* A faulty generate(): a failure of tc.generate() is swallowed.
after_toolchain_swallowed(ok) == "deps"

\* generate(): deps.generate() is reached only when tc.generate() returned;
\* an exception of tc.generate() leaves generate() at once.
after_toolchain(ok) == IF ok THEN "deps" ELSE "done"

\* A faulty generate(): the run always goes on to build().
after_generate_always(external) == "configure"

\* After generate(): build() is optional, only the build command calls it.
after_generate(external) == IF external THEN "configure" ELSE "done"

\* tc = CMakeToolchain(self); tc.generator = "Ninja"; tc.generate()
TcGenerate(r) ==
    /\ pc[r] = "toolchain"
    /\ \E ok \in BOOLEAN :
         LET path == Path(generators_folder(folders[r]), ToolchainFile)
         IN  /\ fs' = IF ok THEN Write(fs, path, ToolchainContent(settings[r]))
                            ELSE fs
             /\ written' = [written EXCEPT ![r] =
                              IF ok THEN Append(@, path) ELSE @]
             /\ pc' = [pc EXCEPT ![r] = after_toolchain(ok)]
             /\ result' = [result EXCEPT ![r] =
                             IF ok THEN @ ELSE GenerationError("toolchain")]
    /\ stages' = [stages EXCEPT ![r] = Append(@, "toolchain")]
    /\ UNCHANGED <<settings, invoke_external, folders, calls, runs, last>>

\* deps = CMakeDeps(self); deps.generate()
\* CMakeDeps writes one requirement after the other; when it fails, the files
\* of the first k requirements are left on disk.
DepsGenerate(r) ==
    /\ pc[r] = "deps"
    /\ \E k \in 0..Len(requires) :
         LET ok == k = Len(requires)
             dir == generators_folder(folders[r])
         IN  /\ fs' = WriteDeps(fs, dir, k)
             /\ written' = [written EXCEPT ![r] = @ \o DepsPaths(dir, k)]
             /\ pc' = [pc EXCEPT ![r] =
                         IF ok THEN after_generate(invoke_external[r])
                               ELSE "done"]
             /\ result' = [result EXCEPT ![r] =
                             IF ~ok THEN GenerationError("dependency-locator")
                             ELSE IF after_generate(invoke_external[r]) = "done"
                                  THEN Success ELSE @]
    /\ stages' = [stages EXCEPT ![r] = Append(@, "dependency-locator")]
    /\ UNCHANGED <<settings, invoke_external, folders, calls, runs, last>>

\* ------------------------------------------------------------- build()
ExitCodes == 0..MaxExit

\* A faulty build(): the exit code of the configure step is ignored.
after_configure_ignored(code) == "build"

\* build(): cmake.build() is reached only when cmake.configure() returned;
\* CMake.configure() raises when the configure step exits non-zero.
after_configure(code) == IF code = 0 THEN "build" ELSE "done"

\* A faulty build(): every failure of the build step is reported as 1.
build_result_flat(code) ==
    IF code = 0 THEN Success ELSE ExternalFailure("build", 1)

\* build(): what cmake.build() ends with is what build() ends with; a
\* non-zero exit raises an exception that names the step and the exit code.
build_result(code) ==
    IF code = 0 THEN Success ELSE ExternalFailure("build", code)

\* cmake = CMake(self); cmake.configure()
Configure(r) ==
    /\ pc[r] = "configure"
    /\ \E code \in ExitCodes :
         /\ calls' = [calls EXCEPT ![r] =
                        Append(@, [phase |-> "configure", exit_code |-> code])]
         /\ pc' = [pc EXCEPT ![r] = after_configure(code)]
         /\ result' = [result EXCEPT ![r] =
                         IF code = 0 THEN @
                         ELSE ExternalFailure("configure", code)]
    /\ stages' = [stages EXCEPT ![r] = Append(@, "configure")]
    /\ UNCHANGED <<settings, invoke_external, folders, written, fs, runs,
                   last>>

\* cmake.build()
Build(r) ==
    /\ pc[r] = "build"
    /\ \E code \in ExitCodes :
         /\ calls' = [calls EXCEPT ![r] =
                        Append(@, [phase |-> "build", exit_code |-> code])]
         /\ result' = [result EXCEPT ![r] = build_result(code)]
    /\ pc' = [pc EXCEPT ![r] = "done"]
    /\ stages' = [stages EXCEPT ![r] = Append(@, "build")]
    /\ UNCHANGED <<settings, invoke_external, folders, written, fs, runs,
                   last>>

\* ------------------------------------------------------------- run again
\* The same command on the same recipe and profile, once the run before it
\* has ended.  The disk is kept; the recipe object is a new one.
Rerun(r) ==
    /\ pc[r] = "done"
    /\ runs[r] < MaxRuns
    /\ runs' = [runs EXCEPT ![r] = @ + 1]
    /\ last' = [last EXCEPT ![r] = [result |-> result[r], fs |-> fs]]
    /\ pc' = [pc EXCEPT ![r] = "layout"]
    /\ folders' = [folders EXCEPT ![r] = NoFolders]
    /\ result' = [result EXCEPT ![r] = Running]
    /\ calls' = [calls EXCEPT ![r] = <<>>]
    /\ stages' = [stages EXCEPT ![r] = <<>>]
    /\ written' = [written EXCEPT ![r] = <<>>]
    /\ UNCHANGED <<settings, invoke_external, fs>>

\* ------------------------------------------------------------- specifications
Next ==
    \/ \E r \in Procs : Layout(r)
    \/ \E r \in Procs : TcGenerate(r)
    \/ \E r \in Procs : DepsGenerate(r)
    \/ \E r \in Procs : Configure(r)
    \/ \E r \in Procs : Build(r)
    \/ \E r \in Procs : Rerun(r)

Spec == Init /\ [][Next]_vars

NextPair ==
    \/ \E r \in Procs : Layout(r)
    \/ \E r \in Procs : TcGenerate(r)
    \/ \E r \in Procs : DepsGenerate(r)
    \/ \E r \in Procs : Configure(r)
    \/ \E r \in Procs : Build(r)

SpecPair == InitPair /\ [][NextPair]_vars

\* ------------------------------------------------------------- paths
\* The place of the first "/" of s, Len(s) + 1 when it has none.
FirstSlash(s) ==
    IF \E i \in 1..Len(s) : s[i] = "/"
    THEN CHOOSE i \in 1..Len(s) : s[i] = "/" /\ \A j \in 1..(i-1) : s[j] # "/"
    ELSE Len(s) + 1

\* The names a path string is made of, empty names dropped.
RECURSIVE Components(_)
Components(s) ==
    IF s = <<>> THEN <<>>
    ELSE LET n == FirstSlash(s)
             head == SubSeq(s, 1, n - 1)
             rest == SubSeq(s, n + 1, Len(s))
         IN  (IF head = <<>> THEN <<>> ELSE <<head>>) \o Components(rest)

IsAbsolute(s) == s # <<>> /\ s[1] = "/"

\* base / name, for a relative name: the name itself under an empty base.
PathJoin(base, name) ==
    IF base = <<>> THEN name
    ELSE IF base[Len(base)] = "/" THEN base \o name
    ELSE base \o <<"/">> \o name

\* sub lies strictly below base.
StrictSubPath(sub, base) ==
    /\ IsAbsolute(sub) = IsAbsolute(base)
    /\ Len(Components(base)) < Len(Components(sub))
    /\ SubSeq(Components(sub), 1, Len(Components(base))) = Components(base)

\* a and b are the same string but for the case of their letters.
SameIgnoringCase(a, b) ==
    /\ Len(a) = Len(b)
    /\ \A i \in 1..Len(a) :
         \/ a[i] = b[i]
         \/ \E j \in 1..Len(UpperAlpha) :
              {a[i], b[i]} = {UpperAlpha[j], LowerAlpha[j]}

\* ------------------------------------------------------------- properties
LayoutDone(r) == Len(stages[r]) > 0
Called(r, phase) == \E i \in 1..Len(calls[r]) : calls[r][i].phase = phase
Executed(r, stage) == \E i \in 1..Len(stages[r]) : stages[r][i] = stage
PathsWritten(r) == {written[r][i] : i \in 1..Len(written[r])}

\* C1: when the external configure step of a run returns a non-zero exit
\* code, the run has ended with ExternalFailure(configure, that code) and
\* the external build step was not called.
C1_ConfigureFailureEndsRun ==
    \A r \in Procs : \A i \in 1..Len(calls[r]) :
        (calls[r][i].phase = "configure" /\ calls[r][i].exit_code # 0) =>
            /\ pc[r] = "done"
            /\ result[r] = ExternalFailure("configure", calls[r][i].exit_code)
            /\ ~Called(r, "build")
            /\ ~Executed(r, "build")

\* C1, its case: a build command whose configure step failed.
C1_Witness ==
    \E r \in Procs :
        /\ invoke_external[r]
        /\ calls[r] = <<[phase |-> "configure", exit_code |-> MaxExit]>>
        /\ pc[r] = "done"

\* C3: after layout(), the build folder of every profile has a non-empty
\* name, also when the profile's build_type is empty or is none of the
\* known build types.
C3_BuildRootNeverEmpty ==
    \A r \in Procs : LayoutDone(r) => folders[r].build # <<>>

\* C4: after layout(), the generators folder of every profile is the build
\* folder joined with "generators", and lies strictly below the build folder.
C4_GeneratorsUnderBuildRoot ==
    \A r \in Procs : LayoutDone(r) =>
        /\ folders[r].generators =
               PathJoin(folders[r].build, Tail(GeneratorsSuffix))
        /\ StrictSubPath(folders[r].generators, folders[r].build)

\* C5: two profiles whose build_type strings differ only in the case of
\* their letters get the same folders from layout(), whatever their os,
\* compiler and arch; in particular the same build folder.
C5_LayoutDependsOnLowerCasedVariantOnly ==
    \A r1 \in Procs : \A r2 \in Procs :
        (/\ LayoutDone(r1)
         /\ LayoutDone(r2)
         /\ SameIgnoringCase(str(settings[r1].build_type),
                             str(settings[r2].build_type)))
        => /\ folders[r1] = folders[r2]
           /\ folders[r1].build = folders[r2].build

\* C5, its case: "D" for one platform and "d" for the other, both laid out.
C5_Witness ==
    \E r1 \in Procs : \E r2 \in Procs :
        /\ LayoutDone(r1)
        /\ LayoutDone(r2)
        /\ settings[r1].build_type = PyStr(<<"D">>)
        /\ settings[r2].build_type = PyStr(<<"d">>)
        /\ settings[r1].os # settings[r2].os

\* The paths of a complete generation into dir: the toolchain file and one
\* file for each requirement.
AllDescriptors(dir) ==
    {Path(dir, ToolchainFile)} \cup
    {Path(dir, DepsFile(i)) : i \in 1..Len(requires)}

StageOrder ==
    <<"layout", "toolchain", "dependency-locator", "configure", "build">>

Failed(r) == result[r].kind \in {"Generation", "ExternalFailure"}

C9_NoStageAfterFailure ==
    [][\A r \in Procs :
          (Failed(r) /\ runs'[r] = runs[r]) =>
              /\ stages'[r] = stages[r]
              /\ calls'[r] = calls[r]
              /\ result'[r] = result[r]]_vars

VariantsDiffer(r1, r2) ==
    ~SameIgnoringCase(str(settings[r1].build_type),
                      str(settings[r2].build_type))

\* C10 as stated: two runs with different profiles write no common path.
C10_DifferentProfilesDisjoint ==
    \A r1 \in Procs : \A r2 \in Procs :
        (r1 # r2 /\ settings[r1] # settings[r2]) =>
            PathsWritten(r1) \cap PathsWritten(r2) = {}

\* C10 as amended: two runs whose build_type strings differ by more than the
\* case of their letters have different build folders and write no common
\* path.
C10_DifferentVariantsDisjoint ==
    \A r1 \in Procs : \A r2 \in Procs :
        (r1 # r2 /\ VariantsDiffer(r1, r2)) =>
            /\ PathsWritten(r1) \cap PathsWritten(r2) = {}
            /\ (LayoutDone(r1) /\ LayoutDone(r2)) =>
                   /\ folders[r1].build # folders[r2].build
                   /\ folders[r1].generators # folders[r2].generators

\* C10, its case: two runs with different variants have both written all
\* their files.
C10_Witness ==
    \E r1 \in Procs : \E r2 \in Procs :
        /\ r1 # r2
        /\ VariantsDiffer(r1, r2)
        /\ Len(written[r1]) = 1 + Len(requires)
        /\ Len(written[r2]) = 1 + Len(requires)

=============================================================================
